---- MODULE Spec2Model ----
(***************************************************************************)
(* Model of green_rnd_api_company.py: an HTTP API over two in-memory       *)
(* tables, purchasers_db (identity, access flag, pending verification      *)
(* code) and receipts_db (per-purchaser receipt lists).                    *)
(*                                                                         *)
(* Every handler is an `async def` without an `await` in its body, so on   *)
(* the event loop a handler runs from its first line to its return without *)
(* another request interleaving: one action per handler.                   *)
(*                                                                         *)
(* Optional values (Python None or a value) are modelled as sequences of   *)
(* length 0 or 1.  Strings that the code parses (the time strings) are     *)
(* sequences of characters; strings that the code only compares are TLA+   *)
(* strings.                                                                *)
(***************************************************************************)
EXTENDS Integers, Sequences, FiniteSets, TLC

VARIABLES
    purchasers_db,  \* the purchaser directory, a dict keyed by purchaser id
    receipts_db,    \* the receipt store, purchaser id -> list of receipts
    now,            \* the wall clock that time.time() reads
    response,       \* the last request handled: operation, arguments, the
                    \* handler's locals worth observing, status and body
    grant_log       \* observer's record of the grant flow per purchaser id:
                    \* when a code was last issued, whether that code has
                    \* been redeemed, and whether any code ever was; no
                    \* handler reads it

vars == <<purchasers_db, receipts_db, now, response, grant_log>>

-----------------------------------------------------------------------------
(* Bounds and program constants *)

\* Largest value of the wall clock explored.
MaxClock == 301

\* Lifetime of a verification code in seconds (time.time() + 300).
CodeTTL == 300

\* Length the middleware expects of the X-Auth-Token header.
TokenLength == 128

\* Steps by which the wall clock advances: two of the first land exactly on
\* the expiry of a code issued at the start, any other pair lands beyond it.
ClockSteps == {CodeTTL \div 2, CodeTTL \div 2 + 1}

-----------------------------------------------------------------------------
(* Python values *)

None == <<>>

Some(x) == <<x>>

\* Python truthiness of an Optional[str]: None and "" are falsy.
Truthy(o) == o # None /\ o[1] # ""

\* Characters of the strings the code parses.
Digits == {"0", "1", "2", "3", "4", "5", "6", "7", "8", "9"}

DigitVal ==
    [c \in Digits |->
        CASE c = "0" -> 0 [] c = "1" -> 1 [] c = "2" -> 2 [] c = "3" -> 3
          [] c = "4" -> 4 [] c = "5" -> 5 [] c = "6" -> 6 [] c = "7" -> 7
          [] c = "8" -> 8 [] c = "9" -> 9]

\* Index of the first non-blank character of s at or after i (Len(s) + 1 if
\* there is none), and of the last one at or before j (0 if there is none).
RECURSIVE SkipBlanks(_, _)
SkipBlanks(s, i) ==
    IF i <= Len(s) /\ s[i] = " " THEN SkipBlanks(s, i + 1) ELSE i

RECURSIVE SkipBlanksBack(_, _)
SkipBlanksBack(s, j) ==
    IF j >= 1 /\ s[j] = " " THEN SkipBlanksBack(s, j - 1) ELSE j

\* The value of s[i..j] read as decimal digits, most significant first, given
\* the value acc of the digits before them; -1 if one of them is not a digit.
RECURSIVE DigitsValue(_, _, _, _)
DigitsValue(s, i, j, acc) ==
    IF i > j THEN acc
    ELSE IF s[i] \notin Digits THEN -1
    ELSE DigitsValue(s, i + 1, j, 10 * acc + DigitVal[s[i]])

\* Python int(str) over the alphabet of digits, letters, sign and blank:
\* surrounding blanks are dropped, one leading sign is accepted, and what
\* remains must be a non-empty run of decimal digits.  None stands for the
\* ValueError that int() raises otherwise.
ParseInt(s) ==
    LET lo     == SkipBlanks(s, 1)
        hi     == SkipBlanksBack(s, Len(s))
        signed == lo <= hi /\ s[lo] \in {"+", "-"}
        first  == IF signed THEN lo + 1 ELSE lo
        value  == DigitsValue(s, first, hi, 0)
    IN  IF first > hi \/ value = -1 THEN None
        ELSE IF signed /\ s[lo] = "-" THEN Some(0 - value)
        ELSE Some(value)

\* The time strings that occur in the seed data and in the requests.
T_0 == <<"0">>

T_100 == <<"1", "0", "0">>

T_seed == <<"1", "7", "2", "9", "6", "8", "6", "7", "5", "4">>

T_abc == <<"a", "b", "c">>

\* ParseInt of the strings above, computed once.
ParsedTimes == [s \in {T_0, T_100, T_seed, T_abc} |-> ParseInt(s)]

int(s) == IF s \in DOMAIN ParsedTimes THEN ParsedTimes[s] ELSE ParseInt(s)

-----------------------------------------------------------------------------
(* Ordered dictionaries: a Python dict is a sequence of entries in         *)
(* insertion order with unique keys.                                       *)

Contains(d, k) == \E i \in 1..Len(d) : d[i].key = k

IndexOf(d, k) == CHOOSE i \in 1..Len(d) : d[i].key = k

Lookup(d, k) == d[IndexOf(d, k)].value

\* d[k][field] = v for a key that is present.
SetField(d, k, field, v) ==
    [d EXCEPT ![IndexOf(d, k)].value = [@ EXCEPT ![field] = v]]

-----------------------------------------------------------------------------
(* Seed data.  Decimal fields are kept as exact scaled integers: count in  *)
(* thousandths, price and total_price in hundredths.                       *)

User1 ==
    [id |-> "user1", email |-> "user1@example.com", phone |-> "79001234567",
     access |-> FALSE, verification_code |-> None, code_expires_at |-> None]

Receipt1 ==
    [id |-> "receipt1", time |-> T_seed,
     items |-> << [name |-> "Dzhem vishnyovyy doy-pak", count |-> 2000, price |-> 6450],
                  [name |-> "Kurinaya grudka okhlazhdyonnaya", count |-> 980, price |-> 29999] >>,
     total_price |-> 40299]

\* The tables as the module creates them.
purchasers_db_seed == << [key |-> "user1", value |-> User1] >>

receipts_db_seed == [k \in {"user1"} |-> << Receipt1 >>]

\* A second purchaser, for the branches of the handlers that the shipped
\* one-row tables cannot reach: more than one row in the directory (two rows
\* with the same phone), a receipt list that is not in time order, a
\* purchaser without a receipt list.
User2 ==
    [id |-> "user2", email |-> "user2@example.com", phone |-> "79001234567",
     access |-> FALSE, verification_code |-> None, code_expires_at |-> None]

Receipt2 ==
    [id |-> "receipt2", time |-> T_seed,
     items |-> << [name |-> "Khleb", count |-> 1000, price |-> 4500] >>,
     total_price |-> 4500]

Receipt3 ==
    [id |-> "receipt3", time |-> T_100,
     items |-> << [name |-> "Moloko", count |-> 2000, price |-> 8990] >>,
     total_price |-> 17980]

Seeds ==
    { [purchasers |-> purchasers_db_seed, receipts |-> receipts_db_seed],
      [purchasers |-> purchasers_db_seed \o << [key |-> "user2", value |-> User2] >>,
       receipts   |-> [k \in {"user1", "user2"} |->
                          IF k = "user1" THEN << Receipt1 >> ELSE << Receipt2, Receipt3 >>]],
      [purchasers |-> << [key |-> "user2", value |-> User2] >>,
       receipts   |-> receipts_db_seed] }

-----------------------------------------------------------------------------
(* Request inputs *)

\* The X-Auth-Token header, by its length: absent, empty, one short of the
\* expected length, the expected length, one more.
Tokens == {None, Some(0), Some(TokenLength - 1), Some(TokenLength), Some(TokenLength + 1)}

PurchaserIds == {"user1", "user2"}

Codes == {"123456", "000000"}

Emails == {None, Some(""), Some("user1@example.com"), Some("user2@example.com")}

Phones == {None, Some("79001234567"), Some("70000000000")}

\* The two query strings (from, to) of the receipt listing: one of them
\* absent, one of them not a number, and ranges that lie below the receipt
\* times, end or start exactly at one, span several, or are empty (from > to).
TimeRanges ==
    { <<None, Some(T_100)>>,        <<Some(T_0), None>>,
      <<Some(T_abc), Some(T_100)>>, <<Some(T_100), Some(T_abc)>>,
      <<Some(T_0), Some(T_100)>>,   <<Some(T_seed), Some(T_seed)>>,
      <<Some(T_100), Some(T_seed)>>, <<Some(T_seed), Some(T_100)>> }

NoResponse == [op |-> "none", args |-> None, locals |-> None, status |-> 0, body |-> None]

NoGrant == [issued_at |-> None, redeemed |-> FALSE, ever_redeemed |-> FALSE]

Init ==
    \E seed \in Seeds :
        /\ purchasers_db = seed.purchasers
        /\ receipts_db = seed.receipts
        /\ now = 0
        /\ response = NoResponse
        /\ grant_log = [p \in PurchaserIds |-> NoGrant]

-----------------------------------------------------------------------------------------------------------------------------------------------------
(* Responses *)

\* raise HTTPException(status_code, detail), and an uncaught Python
\* exception (ValueError, TypeError), which the server answers with 500.
HTTPException(op, args, locals, status_code, detail) ==
    [op |-> op, args |-> args, locals |-> locals, status |-> status_code, body |-> detail]

Reply(op, args, locals, status_code, body) ==
    [op |-> op, args |-> args, locals |-> locals, status |-> status_code, body |-> body]

\* response_model=Purchaser: only id and access leave the server.
Purchaser(rec) == [id |-> rec.id, access |-> rec.access]

ReceiptItem(it) == [name |-> it.name, count |-> it.count, price |-> it.price]

\* Faulty variant of Receipt: total_price is computed from the items.
RECURSIVE ItemsTotal(_)
ItemsTotal(items) ==
    IF items = <<>> THEN 0
    ELSE (Head(items).count * Head(items).price) \div 1000 + ItemsTotal(Tail(items))

Receipt_RecomputedTotal(r) ==
    [id |-> r.id, time |-> r.time,
     items |-> [i \in DOMAIN r.items |-> ReceiptItem(r.items[i])],
     total_price |-> ItemsTotal(r.items)]

\* response_model=List[Receipt], one element.
Receipt(r) ==
    [id |-> r.id, time |-> r.time,
     items |-> [i \in DOMAIN r.items |-> ReceiptItem(r.items[i])],
     total_price |-> r.total_price]

-----------------------------------------------------------------------------
(* Middleware *)

\* not auth_token or len(auth_token) != 128
TokenRejected(tok) == tok = None \/ tok[1] = 0 \/ tok[1] # TokenLength

\* The middleware returns (does not raise) an HTTPException object, which is
\* not a response the server can send: the request ends there with a server
\* error, and call_next, hence the handler, never runs.
check_auth_token(tok, route, call_next) ==
    IF TokenRejected(tok)
    THEN /\ response' = HTTPException("check_auth_token", [token |-> tok, route |-> route],
                                      None, 500, "Internal Server Error")
         /\ UNCHANGED <<purchasers_db, receipts_db, now, grant_log>>
    ELSE call_next

-----------------------------------------------------------------------------
(* Purchaser lookup *)

\* Faulty variant of Matches: every filter that is given has to match.
Matches_EveryFilter(rec, email, phone_number) ==
    /\ Truthy(email) \/ Truthy(phone_number)
    /\ Truthy(email) => rec.email = email[1]
    /\ Truthy(phone_number) => rec.phone = phone_number[1]

\* (email and purchaser["email"] == email) or
\* (phone_number and purchaser["phone"] == phone_number)
Matches(rec, email, phone_number) ==
    \/ Truthy(email) /\ rec.email = email[1]
    \/ Truthy(phone_number) /\ rec.phone = phone_number[1]

\* Faulty variant of get_purchaser: the directory is searched before the
\* filters are tested for presence.
get_purchaser_SearchFirst(email, phone_number) ==
    LET args == [email |-> email, phone_number |-> phone_number]
        hits == {i \in 1..Len(purchasers_db) :
                    Matches(purchasers_db[i].value, email, phone_number)}
        first == CHOOSE i \in hits : \A j \in hits : i <= j
    IN  /\ response' =
            IF hits # {}
            THEN Reply("get_purchaser", args, None, 200,
                       Purchaser(purchasers_db[first].value))
            ELSE IF hits = {}
            THEN HTTPException("get_purchaser", args, None, 404, "Purchaser not found")
            ELSE HTTPException("get_purchaser", args, None, 400,
                               "Either email or phone_number must be provided")
        /\ UNCHANGED <<purchasers_db, receipts_db, now, grant_log>>

get_purchaser(email, phone_number) ==
    LET args == [email |-> email, phone_number |-> phone_number]
        hits == {i \in 1..Len(purchasers_db) :
                    Matches(purchasers_db[i].value, email, phone_number)}
        first == CHOOSE i \in hits : \A j \in hits : i <= j
    IN  /\ response' =
            IF ~Truthy(email) /\ ~Truthy(phone_number)
            THEN HTTPException("get_purchaser", args, None, 400,
                               "Either email or phone_number must be provided")
            ELSE IF hits = {}
            THEN HTTPException("get_purchaser", args, None, 404, "Purchaser not found")
            ELSE Reply("get_purchaser", args, None, 200,
                       Purchaser(purchasers_db[first].value))
        /\ UNCHANGED <<purchasers_db, receipts_db, now, grant_log>>

-----------------------------------------------------------------------------
(* Grant access: issue a code *)

\* Faulty variants of IssueCode: the expiry is not stored; access is reset.
IssueCode_NoExpiry(db, purchaser_id, current_time) ==
    SetField(db, purchaser_id, "verification_code", Some("123456"))

IssueCode_ResetAccess(db, purchaser_id, current_time) ==
    SetField(SetField(SetField(db, purchaser_id, "verification_code", Some("123456")),
                      purchaser_id, "code_expires_at", Some(current_time + CodeTTL)),
             purchaser_id, "access", FALSE)

\* Faulty variant of IssueCode: every row of the directory gets the code.
IssueCode_EveryRow(db, purchaser_id, current_time) ==
    [i \in DOMAIN db |->
        [db[i] EXCEPT !.value.verification_code = Some("123456"),
                      !.value.code_expires_at = Some(current_time + CodeTTL)]]

\* Faulty variant of IssueCode: a code that is pending is not replaced.
IssueCode_KeepPending(db, purchaser_id, current_time) ==
    IF Lookup(db, purchaser_id).verification_code # None
    THEN db
    ELSE SetField(SetField(db, purchaser_id, "verification_code", Some("123456")),
                  purchaser_id, "code_expires_at", Some(current_time + CodeTTL))

\* purchasers_db[purchaser_id]["verification_code"] = "123456"
\* purchasers_db[purchaser_id]["code_expires_at"] = time.time() + 300
IssueCode(db, purchaser_id, current_time) ==
    SetField(SetField(db, purchaser_id, "verification_code", Some("123456")),
             purchaser_id, "code_expires_at", Some(current_time + CodeTTL))

send_verification_code(purchaser_id) ==
    LET args == [purchaser_id |-> purchaser_id]
    IN  IF ~Contains(purchasers_db, purchaser_id)
        THEN /\ response' = HTTPException("send_verification_code", args, None, 404,
                                          "Purchaser not found")
             /\ UNCHANGED <<purchasers_db, receipts_db, now, grant_log>>
        ELSE /\ purchasers_db' = IssueCode(purchasers_db, purchaser_id, now)
             /\ response' = Reply("send_verification_code", args,
                                  [current_time |-> now], 204, None)
             /\ grant_log' = [grant_log EXCEPT ![purchaser_id].issued_at = Some(now),
                                                ![purchaser_id].redeemed = FALSE]
             /\ UNCHANGED <<receipts_db, now>>

-----------------------------------------------------------------------------
(* Grant access: redeem a code *)

\* Faulty variants of CodeCheck: a code is refused at the very second it
\* expires; the supplied code is not compared; the expiry is not checked.
CodeCheck_ExpiredAtDeadline(purchaser, code, current_time) ==
    IF ~Truthy(purchaser.verification_code) THEN "reject"
    ELSE IF purchaser.verification_code # Some(code) THEN "reject"
    ELSE IF purchaser.code_expires_at = None THEN "TypeError"
    ELSE IF current_time >= purchaser.code_expires_at[1] THEN "reject"
    ELSE "accept"

CodeCheck_AnyCode(purchaser, code, current_time) ==
    IF ~Truthy(purchaser.verification_code) THEN "reject"
    ELSE IF purchaser.code_expires_at = None THEN "TypeError"
    ELSE IF current_time > purchaser.code_expires_at[1] THEN "reject"
    ELSE "accept"

CodeCheck_NoExpiry(purchaser, code, current_time) ==
    IF ~Truthy(purchaser.verification_code) THEN "reject"
    ELSE IF purchaser.verification_code # Some(code) THEN "reject"
    ELSE "accept"

\* not purchaser["verification_code"] or
\* purchaser["verification_code"] != code or
\* current_time > purchaser["code_expires_at"]
\* The third operand is evaluated only when the first two are false; with a
\* code_expires_at of None the comparison raises TypeError.
CodeCheck(purchaser, code, current_time) ==
    IF ~Truthy(purchaser.verification_code) THEN "reject"
    ELSE IF purchaser.verification_code # Some(code) THEN "reject"
    ELSE IF purchaser.code_expires_at = None THEN "TypeError"
    ELSE IF current_time > purchaser.code_expires_at[1] THEN "reject"
    ELSE "accept"

\* Faulty variants of GrantAccess: the redeemed code is left in place; every
\* row of the directory is granted access.
GrantAccess_KeepCode(db, purchaser_id) ==
    SetField(db, purchaser_id, "access", TRUE)

GrantAccess_Everyone(db, purchaser_id) ==
    [i \in DOMAIN db |->
        [db[i] EXCEPT !.value =
            [@ EXCEPT !.access = TRUE,
                      !.verification_code = IF db[i].key = purchaser_id THEN None ELSE @,
                      !.code_expires_at = IF db[i].key = purchaser_id THEN None ELSE @]]]

\* Faulty variant of GrantAccess: the expiry of the redeemed code is kept.
GrantAccess_HalfClear(db, purchaser_id) ==
    SetField(SetField(db, purchaser_id, "access", TRUE),
             purchaser_id, "verification_code", None)

\* purchaser["access"] = True
\* purchaser["verification_code"] = None
\* purchaser["code_expires_at"] = None
GrantAccess(db, purchaser_id) ==
    SetField(SetField(SetField(db, purchaser_id, "access", TRUE),
                      purchaser_id, "verification_code", None),
             purchaser_id, "code_expires_at", None)

\* Faulty variant of verify_access_code: a refused redemption discards a
\* pending code that has expired.
verify_access_code_SweepExpired(purchaser_id, code) ==
    LET args == [purchaser_id |-> purchaser_id, code |-> code]
    IN  IF ~Contains(purchasers_db, purchaser_id)
        THEN /\ response' = HTTPException("verify_access_code", args, None, 404,
                                          "Purchaser not found")
             /\ UNCHANGED <<purchasers_db, receipts_db, now, grant_log>>
        ELSE LET purchaser == Lookup(purchasers_db, purchaser_id)
                 current_time == now
                 locals == [purchaser |-> purchaser, current_time |-> current_time]
                 check == CodeCheck(purchaser, code, current_time)
                 expired == /\ purchaser.code_expires_at # None
                            /\ current_time > purchaser.code_expires_at[1]
             IN  IF check # "accept"
                 THEN /\ response' = HTTPException("verify_access_code", args, locals, 403,
                                         "Invalid or expired verification code")
                      /\ purchasers_db' =
                            IF expired
                            THEN SetField(SetField(purchasers_db, purchaser_id,
                                                   "verification_code", None),
                                          purchaser_id, "code_expires_at", None)
                            ELSE purchasers_db
                      /\ UNCHANGED <<receipts_db, now, grant_log>>
                 ELSE /\ purchasers_db' = GrantAccess(purchasers_db, purchaser_id)
                      /\ response' = Reply("verify_access_code", args, locals, 204, None)
                      /\ grant_log' = [grant_log EXCEPT ![purchaser_id].redeemed = TRUE,
                                                         ![purchaser_id].ever_redeemed = TRUE]
                      /\ UNCHANGED <<receipts_db, now>>

verify_access_code(purchaser_id, code) ==
    LET args == [purchaser_id |-> purchaser_id, code |-> code]
    IN  IF ~Contains(purchasers_db, purchaser_id)
        THEN /\ response' = HTTPException("verify_access_code", args, None, 404,
                                          "Purchaser not found")
             /\ UNCHANGED <<purchasers_db, receipts_db, now, grant_log>>
        ELSE LET purchaser == Lookup(purchasers_db, purchaser_id)
                 current_time == now
                 locals == [purchaser |-> purchaser, current_time |-> current_time]
                 check == CodeCheck(purchaser, code, current_time)
             IN  IF check = "reject"
                 THEN /\ response' = HTTPException("verify_access_code", args, locals, 403,
                                         "Invalid or expired verification code")
                      /\ UNCHANGED <<purchasers_db, receipts_db, now, grant_log>>
                 ELSE IF check = "TypeError"
                 THEN /\ response' = HTTPException("verify_access_code", args, locals, 500,
                                                   "Internal Server Error")
                      /\ UNCHANGED <<purchasers_db, receipts_db, now, grant_log>>
                 ELSE /\ purchasers_db' = GrantAccess(purchasers_db, purchaser_id)
                      /\ response' = Reply("verify_access_code", args, locals, 204, None)
                      /\ grant_log' = [grant_log EXCEPT ![purchaser_id].redeemed = TRUE,
                                                         ![purchaser_id].ever_redeemed = TRUE]
                      /\ UNCHANGED <<receipts_db, now>>

-----------------------------------------------------------------------------
(* Receipt listing *)

\* Faulty variant of InRange: the upper end of the range is excluded.
InRange_ExclusiveTo(receipt, from_timestamp, to_timestamp) ==
    LET t == int(receipt.time)[1]
    IN  from_timestamp <= t /\ t < to_timestamp

\* from_timestamp <= int(receipt["time"]) <= to_timestamp
InRange(receipt, from_timestamp, to_timestamp) ==
    LET t == int(receipt.time)[1]
    IN  from_timestamp <= t /\ t <= to_timestamp

\* [receipt for receipt in receipts if from <= int(receipt["time"]) <= to]
FilterReceipts(receipts, from_timestamp, to_timestamp) ==
    SelectSeq(receipts, LAMBDA receipt : InRange(receipt, from_timestamp, to_timestamp))

\* Faulty variant of ListingResult: an empty selection is returned as such.
ListingResult_AllowEmpty(filtered_receipts) ==
    [status |-> 200,
     body |-> [i \in DOMAIN filtered_receipts |-> Receipt(filtered_receipts[i])]]

\* if not filtered_receipts: raise 404; return filtered_receipts
ListingResult(filtered_receipts) ==
    IF filtered_receipts = <<>>
    THEN [status |-> 404, body |-> "No receipts found in specified time range"]
    ELSE [status |-> 200,
          body |-> [i \in DOMAIN filtered_receipts |-> Receipt(filtered_receipts[i])]]

\* Faulty variant of ReceiptsResult: the receipt list is looked up before the
\* access flag is tested.
ReceiptsResult_CollectionFirst(db, rdb, purchaser_id, from_time, to_time) ==
    LET from_timestamp == int(from_time)
        to_timestamp   == int(to_time)
    IN  IF ~Contains(db, purchaser_id)
        THEN [status |-> 404, body |-> "Purchaser not found"]
        ELSE IF purchaser_id \notin DOMAIN rdb
        THEN [status |-> 404, body |-> "No receipts found"]
        ELSE IF ~Lookup(db, purchaser_id).access
        THEN [status |-> 403, body |-> "Access not granted"]
        ELSE IF from_timestamp = None \/ to_timestamp = None
        THEN [status |-> 500, body |-> "Internal Server Error"]
        ELSE ListingResult(FilterReceipts(rdb[purchaser_id],
                                          from_timestamp[1], to_timestamp[1]))

\* Faulty variant of ReceiptsResult: the access flag is not tested.
ReceiptsResult_NoGate(db, rdb, purchaser_id, from_time, to_time) ==
    LET from_timestamp == int(from_time)
        to_timestamp   == int(to_time)
    IN  IF ~Contains(db, purchaser_id)
        THEN [status |-> 404, body |-> "Purchaser not found"]
        ELSE IF purchaser_id \notin DOMAIN rdb
        THEN [status |-> 404, body |-> "No receipts found"]
        ELSE IF from_timestamp = None \/ to_timestamp = None
        THEN [status |-> 500, body |-> "Internal Server Error"]
        ELSE ListingResult(FilterReceipts(rdb[purchaser_id],
                                          from_timestamp[1], to_timestamp[1]))

\* The outcome of the handler body, after both query parameters were found
\* present by the request validation.
ReceiptsResult(db, rdb, purchaser_id, from_time, to_time) ==
    LET from_timestamp == int(from_time)
        to_timestamp   == int(to_time)
    IN  IF ~Contains(db, purchaser_id)
        THEN [status |-> 404, body |-> "Purchaser not found"]
        ELSE IF ~Lookup(db, purchaser_id).access
        THEN [status |-> 403, body |-> "Access not granted"]
        ELSE IF purchaser_id \notin DOMAIN rdb
        THEN [status |-> 404, body |-> "No receipts found"]
        ELSE IF from_timestamp = None \/ to_timestamp = None
        THEN [status |-> 500, body |-> "Internal Server Error"]
        ELSE IF \E i \in 1..Len(rdb[purchaser_id]) : int(rdb[purchaser_id][i].time) = None
        THEN [status |-> 500, body |-> "Internal Server Error"]
        ELSE ListingResult(FilterReceipts(rdb[purchaser_id],
                                          from_timestamp[1], to_timestamp[1]))

\* from_time and to_time are required query parameters (Query(...)): a
\* request without one of them is answered 422 before the handler body runs.
get_receipts(purchaser_id, from_time, to_time) ==
    LET args == [purchaser_id |-> purchaser_id, from_time |-> from_time, to_time |-> to_time]
        result == IF from_time = None \/ to_time = None
                  THEN [status |-> 422, body |-> "Field required"]
                  ELSE ReceiptsResult(purchasers_db, receipts_db, purchaser_id,
                                      from_time[1], to_time[1])
    IN  /\ response' = Reply("get_receipts", args, None, result.status, result.body)
        /\ UNCHANGED <<purchasers_db, receipts_db, now, grant_log>>

\* The wall clock read by time.time() moves on between requests.
Tick(d) ==
    /\ now + d <= MaxClock
    /\ now' = now + d
    /\ UNCHANGED <<purchasers_db, receipts_db, response, grant_log>>

-----------------------------------------------------------------------------

FindPurchaserRequest ==
    \E tok \in Tokens :
        check_auth_token(tok, "get_purchaser",
            \E email \in Emails, phone_number \in Phones :
                get_purchaser(email, phone_number))

IssueRequest ==
    \E tok \in Tokens :
        check_auth_token(tok, "send_verification_code",
            \E purchaser_id \in PurchaserIds : send_verification_code(purchaser_id))

VerifyRequest ==
    \E tok \in Tokens :
        check_auth_token(tok, "verify_access_code",
            \E purchaser_id \in PurchaserIds, code \in Codes :
                verify_access_code(purchaser_id, code))

ReceiptsRequest ==
    \E tok \in Tokens :
        check_auth_token(tok, "get_receipts",
            \E purchaser_id \in PurchaserIds, range \in TimeRanges :
                get_receipts(purchaser_id, range[1], range[2]))

ClockAdvance == \E d \in ClockSteps : Tick(d)

Next ==
    \/ FindPurchaserRequest
    \/ IssueRequest
    \/ VerifyRequest
    \/ ReceiptsRequest
    \/ ClockAdvance

Spec == Init /\ [][Next]_vars

-----------------------------------------------------------------------------
(* Properties *)

Known(p) == Contains(purchasers_db, p)

Row(p) == Lookup(purchasers_db, p)

\* The code that send_verification_code issues.
IssuedCode == "123456"

\* The last request reached verify_access_code for a known purchaser.
Redemption ==
    /\ response.op = "verify_access_code"
    /\ Known(response.args.purchaser_id)

\* The last request reached the body of get_receipts (both query parameters
\* were supplied).
Listing ==
    /\ response.op = "get_receipts"
    /\ response.args.from_time # None
    /\ response.args.to_time # None

\* This step handled a request of operation op for purchaser p and answered
\* it with success.  (Every request step sets response to its own answer, and
\* only the clock step leaves it; a step that changes nothing is not a step.)
HandledOk(op, p) ==
    /\ now' = now
    /\ response'.op = op
    /\ response'.status \in {200, 204}
    /\ response'.args.purchaser_id = p

\* C1: in every reachable state every purchaser has verification_code and
\* code_expires_at both set or both null.
C1_CodeAndExpiryTogether ==
    \A i \in 1..Len(purchasers_db) :
        (purchasers_db[i].value.verification_code = None)
            <=> (purchasers_db[i].value.code_expires_at = None)

\* A redemption has just failed on a purchaser who holds a pending code.
C1_Witness ==
    /\ Redemption
    /\ response.status = 403
    /\ Row(response.args.purchaser_id).verification_code # None
    /\ Row(response.args.purchaser_id).code_expires_at # None

\* C2: a redemption for a known purchaser is answered Forbidden exactly when
\* no code was pending, or the supplied code differed from the pending one,
\* or the time read was strictly greater than code_expires_at; in every other
\* case, the time equal to code_expires_at included, it succeeds.
C2_ForbiddenIff ==
    Redemption =>
        LET purchaser == response.locals.purchaser
            forbidden ==
                \/ purchaser.verification_code = None
                \/ purchaser.verification_code # Some(response.args.code)
                \/ /\ purchaser.code_expires_at # None
                   /\ response.locals.current_time > purchaser.code_expires_at[1]
        IN  /\ (response.status = 403) <=> forbidden
            /\ ~forbidden => response.status = 204

\* A redemption succeeded at the very second the code expires.
C2_Witness ==
    /\ Redemption
    /\ response.status = 204
    /\ response.locals.purchaser.code_expires_at = Some(response.locals.current_time)

\* C3: the first redemption with the issued code after an issue, made within
\* the validity window, sets access and clears both verification fields; once
\* the code is redeemed, every redemption with it is answered Forbidden until
\* a code is issued again.
C3_RedeemableOnce ==
    [][\A p \in PurchaserIds :
          (/\ response'.op = "verify_access_code"
           /\ Known(p)
           /\ grant_log[p].issued_at # None
           /\ verify_access_code(p, IssuedCode))
          => IF grant_log[p].redeemed
             THEN /\ response'.status = 403
                  /\ purchasers_db' = purchasers_db
             ELSE now <= grant_log[p].issued_at[1] + CodeTTL
                  => /\ response'.status = 204
                     /\ Lookup(purchasers_db', p).access
                     /\ Lookup(purchasers_db', p).verification_code = None
                     /\ Lookup(purchasers_db', p).code_expires_at = None]_vars

\* A second redemption with the issued code was refused although the window
\* of the issue was still open.
C3_Witness ==
    /\ Redemption
    /\ response.args.code = IssuedCode
    /\ response.status = 403
    /\ grant_log[response.args.purchaser_id].redeemed
    /\ response.locals.current_time
          <= grant_log[response.args.purchaser_id].issued_at[1] + CodeTTL
    /\ Row(response.args.purchaser_id).access

\* C4: a redemption with a wrong code that directly follows an issue for the
\* same purchaser is answered Forbidden and leaves access, verification_code
\* and code_expires_at as the issue left them.
C4_WrongCodeKeepsPending ==
    [][\A p \in PurchaserIds, code \in Codes :
          (/\ response.op = "send_verification_code"
           /\ response.status = 204
           /\ response.args.purchaser_id = p
           /\ code # IssuedCode
           /\ verify_access_code(p, code))
          => /\ response'.status = 403
             /\ Lookup(purchasers_db', p) = Row(p)
             /\ Row(p).verification_code = Some(IssuedCode)
             /\ Row(p).code_expires_at = Some(response.locals.current_time + CodeTTL)]_vars

\* A wrong code was refused at the second of the issue, and the pending code
\* and its expiry are those of the issue.
C4_Witness ==
    /\ Redemption
    /\ response.args.code # IssuedCode
    /\ response.status = 403
    /\ grant_log[response.args.purchaser_id].issued_at = Some(response.locals.current_time)
    /\ Row(response.args.purchaser_id).verification_code = Some(IssuedCode)
    /\ Row(response.args.purchaser_id).code_expires_at
          = Some(response.locals.current_time + CodeTTL)

\* C5: a redemption made more than 300 seconds after the most recent issue
\* for the purchaser is answered Forbidden whatever the code, and does not
\* change access.
C5_ExpiredCodeRefused ==
    (/\ Redemption
     /\ grant_log[response.args.purchaser_id].issued_at # None
     /\ response.locals.current_time
           > grant_log[response.args.purchaser_id].issued_at[1] + CodeTTL)
    => /\ response.status = 403
       /\ Row(response.args.purchaser_id).access = response.locals.purchaser.access

\* The issued code itself, still pending, was refused after its window.
C5_Witness ==
    /\ Redemption
    /\ response.args.code = IssuedCode
    /\ response.locals.purchaser.verification_code = Some(IssuedCode)
    /\ response.locals.current_time
          > grant_log[response.args.purchaser_id].issued_at[1] + CodeTTL
    /\ response.status = 403

\* C6: access is monotone: a purchaser whose access is true keeps it in every
\* step.
C6_AccessMonotone ==
    [][\A p \in PurchaserIds :
          (Known(p) /\ Row(p).access)
          => (Contains(purchasers_db', p) /\ Lookup(purchasers_db', p).access)]_vars

\* A purchaser with access was issued a new code, which has expired, and a
\* redemption with it has been refused: access is still there.
C6_Witness ==
    /\ Redemption
    /\ response.status = 403
    /\ Row(response.args.purchaser_id).access
    /\ Row(response.args.purchaser_id).code_expires_at # None
    /\ now > Row(response.args.purchaser_id).code_expires_at[1]

\* C7: access turns from false to true only in a successful redemption
\* addressed to that purchaser, with the pending code and not after its
\* expiry.
C7_AccessOnlyByRedemption ==
    [][\A p \in PurchaserIds :
          (Known(p) /\ ~Row(p).access /\ Lookup(purchasers_db', p).access)
          => /\ response'.op = "verify_access_code"
             /\ response'.status = 204
             /\ response'.args.purchaser_id = p
             /\ Row(p).verification_code = Some(response'.args.code)
             /\ Row(p).code_expires_at # None
             /\ now <= Row(p).code_expires_at[1]]_vars

\* One purchaser has just redeemed a code while another purchaser, who also
\* holds a pending code, is still without access.
C7_Witness ==
    /\ Redemption
    /\ response.status = 204
    /\ \E q \in PurchaserIds :
          /\ q # response.args.purchaser_id
          /\ Known(q)
          /\ ~Row(q).access
          /\ Row(q).verification_code # None

\* C8: a listing for a known purchaser without access is answered Forbidden
\* whatever the two filter values are, and carries no receipt.
C8_NoAccessForbidden ==
    (/\ Listing
     /\ Known(response.args.purchaser_id)
     /\ ~Row(response.args.purchaser_id).access)
    => /\ response.status = 403
       /\ response.body = "Access not granted"

\* Forbidden was the answer to a listing with a filter that is not a number,
\* for a purchaser who has no receipt list.
C8_Witness ==
    /\ Listing
    /\ Known(response.args.purchaser_id)
    /\ ~Row(response.args.purchaser_id).access
    /\ response.args.purchaser_id \notin DOMAIN receipts_db
    /\ int(response.args.from_time[1]) = None
    /\ response.status = 403

\* C9: a successful listing returns exactly the purchaser's receipts whose
\* numeric time lies in [from, to], both ends included, each as stored, in
\* the stored order.
C9_ExactSelection ==
    (Listing /\ response.status = 200) =>
        LET p      == response.args.purchaser_id
            stored == receipts_db[p]
            lo     == int(response.args.from_time[1])[1]
            hi     == int(response.args.to_time[1])[1]
            wanted == {k \in 1..Len(stored) :
                          lo <= int(stored[k].time)[1] /\ int(stored[k].time)[1] <= hi}
            body   == response.body
        IN  /\ Known(p) /\ Row(p).access
            /\ Len(body) = Cardinality(wanted)
            /\ \E f \in [1..Len(body) -> wanted] :
                  /\ \A i, j \in 1..Len(body) : i < j => f[i] < f[j]
                  /\ \A i \in 1..Len(body) : body[i] = stored[f[i]]

\* A listing returned two receipts, the later one first as it is stored, with
\* the range ending exactly at the time of the one and starting exactly at
\* the time of the other.
C9_Witness ==
    /\ Listing
    /\ response.status = 200
    /\ Len(response.body) = 2
    /\ int(response.body[1].time) = int(response.args.to_time[1])
    /\ int(response.body[2].time) = int(response.args.from_time[1])
    /\ int(response.body[1].time)[1] > int(response.body[2].time)[1]

\* C10: a listing never succeeds with an empty list: with access granted, a
\* receipt list and no receipt in [from, to] (from > to included) the answer
\* is NotFound; for user1 the range [1729686754, 1729686754] returns the one
\* seeded receipt and the range [0, 100] is answered NotFound.
C10_EmptyIsNotFound ==
    LET p      == response.args.purchaser_id
        lo     == int(response.args.from_time[1])
        hi     == int(response.args.to_time[1])
        granted == Listing /\ Known(p) /\ Row(p).access /\ p \in DOMAIN receipts_db
    IN  /\ (Listing /\ response.status = 200) => response.body # <<>>
        /\ (/\ granted
            /\ lo # None /\ hi # None
            /\ \A k \in 1..Len(receipts_db[p]) :
                  ~(/\ lo[1] <= int(receipts_db[p][k].time)[1]
                    /\ int(receipts_db[p][k].time)[1] <= hi[1]))
           => response.status = 404
        /\ (granted /\ p = "user1" /\ lo = Some(1729686754) /\ hi = Some(1729686754))
           => /\ response.status = 200
              /\ response.body = << Receipt1 >>
        /\ (granted /\ p = "user1" /\ lo = Some(0) /\ hi = Some(100))
           => response.status = 404

\* user1, with access, asked for the range [0, 100] and was answered NotFound.
C10_Witness ==
    /\ Listing
    /\ response.args.purchaser_id = "user1"
    /\ Known("user1") /\ Row("user1").access
    /\ int(response.args.from_time[1]) = Some(0)
    /\ int(response.args.to_time[1]) = Some(100)
    /\ response.status = 404

\* C11: a request whose X-Auth-Token is missing, empty or not of length 128
\* is rejected with 401 and changes neither table; a request is rejected by
\* the gate only for such a token.
C11_AuthGate401 ==
    [][response'.op = "check_auth_token"
        => /\ response'.status = 401
           /\ \/ response'.args.token = None
              \/ response'.args.token[1] # 128
           /\ response' # response
                 => UNCHANGED <<purchasers_db, receipts_db>>]_vars

\* C12: a lookup with at least one filter given returns id and access of the
\* first row, in insertion order, whose email equals the given email or whose
\* phone equals the given phone number, and is answered NotFound exactly when
\* no row matches either given filter.
C12_FirstMatchEitherFilter ==
    LET email == response.args.email
        phone == response.args.phone_number
        hits  == {i \in 1..Len(purchasers_db) :
                     \/ Truthy(email) /\ purchasers_db[i].value.email = email[1]
                     \/ Truthy(phone) /\ purchasers_db[i].value.phone = phone[1]}
    IN  (response.op = "get_purchaser" /\ (Truthy(email) \/ Truthy(phone)))
        => /\ (response.status = 404) <=> (hits = {})
           /\ hits # {} =>
                 \E i \in hits :
                    /\ \A j \in hits : i <= j
                    /\ response.status = 200
                    /\ response.body = [id |-> purchasers_db[i].value.id,
                                        access |-> purchasers_db[i].value.access]

\* A lookup gave the email of the second row and the phone that both rows
\* share, and returned the first row, with the access that row has gained.
C12_Witness ==
    /\ response.op = "get_purchaser"
    /\ Len(purchasers_db) = 2
    /\ response.args.email = Some(purchasers_db[2].value.email)
    /\ response.args.phone_number = Some(purchasers_db[1].value.phone)
    /\ response.status = 200
    /\ response.body = [id |-> purchasers_db[1].value.id, access |-> TRUE]

\* C13: an issue for a known purchaser, whatever the state of the row, sets
\* verification_code to the fixed code and code_expires_at to now + 300, and
\* leaves access and every other row as they were.
C13_IssueOverwrites ==
    [][\A p \in PurchaserIds :
          (/\ response'.op = "send_verification_code"
           /\ Known(p)
           /\ send_verification_code(p))
          => /\ response'.status = 204
             /\ purchasers_db' =
                   [i \in DOMAIN purchasers_db |->
                       IF purchasers_db[i].key = p
                       THEN [purchasers_db[i] EXCEPT
                                !.value.verification_code = Some("123456"),
                                !.value.code_expires_at = Some(now + 300)]
                       ELSE purchasers_db[i]]
             /\ receipts_db' = receipts_db]_vars

\* A purchaser who has access was issued a new code after the first window
\* had passed, while another purchaser holds a code with another expiry.
C13_Witness ==
    /\ response.op = "send_verification_code"
    /\ response.status = 204
    /\ response.locals.current_time > CodeTTL
    /\ Row(response.args.purchaser_id).access
    /\ Row(response.args.purchaser_id).verification_code = Some("123456")
    /\ Row(response.args.purchaser_id).code_expires_at
          = Some(response.locals.current_time + 300)
    /\ \E q \in PurchaserIds :
          /\ Known(q)
          /\ ~Row(q).access
          /\ Row(q).code_expires_at # None
          /\ Row(q).code_expires_at # Row(response.args.purchaser_id).code_expires_at

\* C14: the error reported is the one of the first check that applies: a
\* lookup without filter is BadRequest; a redemption for an unknown purchaser
\* is NotFound; a listing is NotFound for an unknown purchaser, else Forbidden
\* without access, else NotFound without a receipt list, else NotFound when
\* no receipt is in the range.
C14_FirstApplicableError ==
    /\ (/\ response.op = "get_purchaser"
        /\ ~Truthy(response.args.email)
        /\ ~Truthy(response.args.phone_number))
       => response.status = 400
    /\ (response.op = "verify_access_code" /\ ~Known(response.args.purchaser_id))
       => /\ response.status = 404
          /\ response.body = "Purchaser not found"
    /\ Listing =>
          LET p == response.args.purchaser_id
              lo == int(response.args.from_time[1])
              hi == int(response.args.to_time[1])
          IN  IF ~Known(p)
              THEN response.status = 404 /\ response.body = "Purchaser not found"
              ELSE IF ~Row(p).access
              THEN response.status = 403
              ELSE IF p \notin DOMAIN receipts_db
              THEN response.status = 404 /\ response.body = "No receipts found"
              ELSE (/\ lo # None /\ hi # None
                    /\ \A k \in 1..Len(receipts_db[p]) :
                          \/ int(receipts_db[p][k].time)[1] < lo[1]
                          \/ int(receipts_db[p][k].time)[1] > hi[1])
                   => /\ response.status = 404
                      /\ response.body = "No receipts found in specified time range"

\* A purchaser with access but without a receipt list asked for a range that
\* is not a number and was answered NotFound for the missing list.
C14_Witness ==
    /\ Listing
    /\ Known(response.args.purchaser_id)
    /\ Row(response.args.purchaser_id).access
    /\ response.args.purchaser_id \notin DOMAIN receipts_db
    /\ int(response.args.to_time[1]) = None
    /\ response.status = 404
    /\ response.body = "No receipts found"

\* C15: the receipt store always equals its seeded value, and every receipt
\* that a listing returns, total_price included, is a receipt of the seed.
C15_ReceiptsNeverWritten ==
    \E seed \in Seeds :
        /\ Len(seed.purchasers) = Len(purchasers_db)
        /\ \A i \in 1..Len(purchasers_db) : seed.purchasers[i].key = purchasers_db[i].key
        /\ receipts_db = seed.receipts
        /\ (Listing /\ response.status = 200)
           => \A i \in 1..Len(response.body) :
                 \E k \in 1..Len(seed.receipts[response.args.purchaser_id]) :
                    /\ response.body[i] = seed.receipts[response.args.purchaser_id][k]
                    /\ response.body[i].total_price
                          = seed.receipts[response.args.purchaser_id][k].total_price

\* The seeded receipt of user1 was returned with its stored total_price,
\* which is not the sum over its items.
C15_Witness ==
    /\ Listing
    /\ response.status = 200
    /\ response.args.purchaser_id = "user1"
    /\ response.body[1].id = "receipt1"
    /\ response.body[1].total_price = 40299
    /\ response.body[1].total_price # ItemsTotal(response.body[1].items)

\* C16: in whatever order requests submitted together for one purchaser are
\* handled, a redemption succeeds only on a code that was issued and not yet
\* redeemed, so one issue yields at most one success; the writes of an issue
\* and of a successful redemption are both in the row after the step, and the
\* pair (verification_code, code_expires_at) is never half-set.
C16_OneRedemptionPerIssue ==
    [][\A p \in PurchaserIds :
          /\ HandledOk("verify_access_code", p)
             => /\ grant_log[p].issued_at # None
                /\ ~grant_log[p].redeemed
                /\ grant_log'[p].redeemed
                /\ Lookup(purchasers_db', p).access
                /\ Lookup(purchasers_db', p).verification_code = None
          /\ HandledOk("send_verification_code", p)
             => /\ ~grant_log'[p].redeemed
                /\ Lookup(purchasers_db', p).verification_code # None
                /\ Lookup(purchasers_db', p).access = Row(p).access
          /\ Contains(purchasers_db', p)
             => (Lookup(purchasers_db', p).verification_code = None
                   <=> Lookup(purchasers_db', p).code_expires_at = None)]_vars

\* An issue and two redemptions with the issued code were handled at the same
\* reading of the clock: the code is redeemed and the last redemption refused.
C16_Witness ==
    /\ Redemption
    /\ response.args.code = IssuedCode
    /\ response.status = 403
    /\ grant_log[response.args.purchaser_id].redeemed
    /\ grant_log[response.args.purchaser_id].issued_at = Some(response.locals.current_time)
    /\ response.locals.purchaser.access
    /\ response.locals.purchaser.verification_code = None

\* C17: a listing returns receipts of a purchaser only after a redemption for
\* that purchaser has succeeded, and a redemption succeeds only after a code
\* has been issued for that purchaser.
C17_ReceiptsAfterRedemption ==
    [][\A p \in PurchaserIds :
          /\ HandledOk("get_receipts", p)
             => /\ grant_log[p].ever_redeemed
                /\ grant_log[p].issued_at # None
          /\ (~grant_log[p].ever_redeemed /\ grant_log'[p].ever_redeemed)
             => /\ grant_log[p].issued_at # None
                /\ response'.op = "verify_access_code"
                /\ response'.args.purchaser_id = p
                /\ response'.status = 204]_vars

\* Receipts were returned to a purchaser who redeemed a code and has been
\* issued another since, while another purchaser has redeemed none.
C17_Witness ==
    /\ Listing
    /\ response.status = 200
    /\ grant_log[response.args.purchaser_id].ever_redeemed
    /\ ~grant_log[response.args.purchaser_id].redeemed
    /\ \E q \in PurchaserIds : Known(q) /\ ~grant_log[q].ever_redeemed

\* C18: a request that ends in an error, and every lookup and listing, leaves
\* the directory as it was; so does the passage of time; a pending code that
\* has expired stays in its row, redemptions refused for it included, until a
\* code is issued for that purchaser again.
C18_ErrorsLeaveDirectory ==
    [][/\ (/\ now' = now
           /\ \/ response'.status \notin {200, 204}
              \/ response'.op \in {"get_purchaser", "get_receipts", "check_auth_token"})
          => purchasers_db' = purchasers_db
       /\ now' # now => purchasers_db' = purchasers_db
       /\ \A p \in PurchaserIds :
             (/\ Known(p)
              /\ Row(p).code_expires_at # None
              /\ now > Row(p).code_expires_at[1]
              /\ ~HandledOk("send_verification_code", p))
             => Lookup(purchasers_db', p) = Row(p)]_vars

\* The issued code was refused for a purchaser without access after its
\* expiry, and the expired code and its expiry are still in the row.
C18_Witness ==
    /\ Redemption
    /\ response.status = 403
    /\ response.args.code = IssuedCode
    /\ response.locals.purchaser.verification_code = Some(IssuedCode)
    /\ response.locals.current_time > response.locals.purchaser.code_expires_at[1]
    /\ Row(response.args.purchaser_id) = response.locals.purchaser
    /\ ~Row(response.args.purchaser_id).access

\* C19: in every state an issue for a known purchaser succeeds, and a
\* redemption with the fixed code that follows it no more than 300 seconds
\* later succeeds and leaves access true: no state blocks the grant flow.
C19_AccessObtainable ==
    [][\A p \in PurchaserIds :
          /\ (/\ response'.op = "send_verification_code"
              /\ Known(p)
              /\ send_verification_code(p))
             => response'.status = 204
          /\ (/\ response.op = "send_verification_code"
              /\ response.status = 204
              /\ response.args.purchaser_id = p
              /\ now <= response.locals.current_time + 300
              /\ verify_access_code(p, "123456"))
             => /\ response'.status = 204
                /\ Lookup(purchasers_db', p).access]_vars

\* A purchaser without access redeemed a code that was issued after the
\* window of any earlier code had passed.
C19_Witness ==
    /\ Redemption
    /\ response.status = 204
    /\ ~response.locals.purchaser.access
    /\ response.locals.current_time > CodeTTL
    /\ response.locals.purchaser.code_expires_at[1] > 2 * CodeTTL
    /\ Row(response.args.purchaser_id).access

====
